---- MODULE Spec2Model ----
(***************************************************************************)
(* Voice-assistant backend (main.py): request pipelines chaining           *)
(* AssemblyAI (speech-to-text), Gemini (reply generation) and Murf         *)
(* (text-to-speech), the in-memory chat_store and the shared output file   *)
(* murf_output.mp3.                                                        *)
(*                                                                         *)
(* Every handler of main.py is an `async def` whose provider calls are     *)
(* blocking (requests.*, time.sleep): once a handler has started, the      *)
(* event loop runs nothing else until it returns or awaits.  The model     *)
(* therefore has one running handler frame, req, which is idle between     *)
(* requests, and one frame, parked, for a handler suspended at the only    *)
(* await of the file (the JSON body of /llm/query).  Each provider call is *)
(* one step; the provider's answer is chosen with \E.  The /stt handler of *)
(* stt_app.py, an application of its own, has its own specification.       *)
(***************************************************************************)
EXTENDS Integers, Sequences, FiniteSets, TLC

(***************************************************************************)
(* Texts.  A text is a sequence of blocks <<chunk, n>>: the chunk repeated *)
(* n times, adjacent blocks having different chunks and n > 0.  This keeps *)
(* a 3001-character text small while len(), slicing and strip() are       *)
(* computed on it as Python computes them on the string.                   *)
(***************************************************************************)
CANNED_CHUNK == "I'm having trouble generating a response right now."

\* The literals of the prompt built in gemini_voice (lines 430-431).
SYSTEM_CHUNK == "You are a helpful assistant. Continue the conversation based on the history below.\n\n"
USER_LABEL      == "User: "
ASSISTANT_LABEL == "Assistant: "
NEWLINE         == "\n"
ASSISTANT_CUE   == "\nAssistant:"

ChunkLen(c) == CASE c = CANNED_CHUNK    -> 52
                 [] c = SYSTEM_CHUNK    -> 84
                 [] c = USER_LABEL      -> 6
                 [] c = ASSISTANT_LABEL -> 11
                 [] c = ASSISTANT_CUE   -> 11
                 [] OTHER               -> 1

RECURSIVE TLen(_)
TLen(t) == IF t = <<>> THEN 0 ELSE ChunkLen(t[1][1]) * t[1][2] + TLen(Tail(t))

\* t[:k]
RECURSIVE TPrefix(_, _)
TPrefix(t, k) ==
    IF t = <<>> \/ k <= 0 THEN <<>>
    ELSE LET c == t[1][1]
             n == t[1][2]
             w == ChunkLen(c)
         IN  IF w * n <= k
             THEN << t[1] >> \o TPrefix(Tail(t), k - w * n)
             ELSE IF k \div w = 0 THEN <<>> ELSE << <<c, k \div w>> >>

\* t.strip(): leading and trailing whitespace removed
TStrip(t) ==
    LET l == IF t # <<>> /\ t[1][1] = " " THEN Tail(t) ELSE t
    IN  IF l # <<>> /\ l[Len(l)][1] = " " THEN SubSeq(l, 1, Len(l) - 1) ELSE l

\* No value (Python None) where a text is expected; no text has a block of 0.
NoText == << <<"None", 0>> >>

EMPTY   == <<>>
EXACT   == << <<"a", 3000>> >>
OVER    == << <<"a", 3000>>, <<"b", 1>> >>
PADOVER == << <<" ", 1>>, <<"a", 3000>>, <<"b", 1>>, <<" ", 1>> >>
CANNED  == << <<CANNED_CHUNK, 1>> >>

\* a + b
TCat(a, b) ==
    IF a = <<>> THEN b
    ELSE IF b = <<>> THEN a
    ELSE IF a[Len(a)][1] = b[1][1]
         THEN SubSeq(a, 1, Len(a) - 1)
              \o << <<b[1][1], a[Len(a)][2] + b[1][2]>> >> \o Tail(b)
         ELSE a \o b

\* Mutant: only None is falsy.
Falsy_none_only(t) == t = NoText

\* "not x" of Python for a text or None
Falsy(t) == t = NoText \/ t = EMPTY

(***************************************************************************)
(* Inputs and provider answers are drawn from these sets.                  *)
(***************************************************************************)
Sessions    == {"s1", "s2"}
TempNames   == {"temp_1.webm"}          \* temp_<int(time.time())>.webm
TextInputs  == {EMPTY, EXACT, OVER}     \* payload text / prompt
Transcripts == {EMPTY, OVER}            \* text of a completed transcription job
Replies     == {PADOVER}                \* text of a Gemini response
JobErrors   == {"audio too short"}      \* "error" of a failed transcription job

\* Bound on the total number of turns held in chat_store.
MaxTurns == 4

\* stt_app.py: names of uploaded files, and the number of status requests
\* after which the model stops following the loop of /stt.
SttNames    == {"temp_a.webm", "temp_b.webm"}   \* f"temp_{file.filename}"
MaxSttPolls == 64

MURF_MAX_CHARS  == 3000
POLL_MAX_TRIES  == 60
ECHO_POLL_TRIES == 20

FALLBACK_AUDIO_URL == "/static/fallback.mp3"
PLAY_AUDIO_URL     == "/play-audio"
MP3_PATH           == "murf_output.mp3"

\* File contents.
\* the bytes of the recording posted to endpoint ep
Upload(ep) == <<"webm", << <<ep, 1>> >> >>
Audio(t)  == <<"mp3", t>>               \* the speech Murf generated for text t
ErrorBody == <<"error-body", EMPTY>>    \* body of a non-200 download response
NoBody    == <<"None", EMPTY>>

VARIABLES
    req,          \* frame of the running handler: locals, position, response
    chat_store,   \* session_id -> list of turns
    files,        \* working directory: path -> content
    lastSynth,    \* bytes of the latest write made by a synthesis, or NoBody
    stats,        \* per session: requests answered 2xx / failed after STT
    parked,       \* frame of a handler suspended at an await, or Idle
    replaced      \* the latest synthesis write replaced different audio

vars == <<req, chat_store, files, lastSynth, stats, parked, replaced>>

NoCalls == [upload |-> 0, start |-> 0, llm |-> 0, voices |-> 0,
            speech |-> 0, download |-> 0, write |-> 0]

NoResp == [status |-> 0, error |-> "None", details |-> "None",
           audio_file |-> "None", transcript |-> NoText, reply |-> NoText,
           llm_response |-> NoText, response |-> NoText, body |-> NoBody,
           text |-> NoText]

Idle == [pc |-> "idle", ep |-> "None", session_id |-> "None",
         temp_filename |-> "None", text |-> NoText,
         transcript_text |-> NoText, llm_reply |-> NoText,
         payload_text |-> NoText, polls |-> 0, calls |-> NoCalls,
         resp |-> NoResp,
         \* what the providers did and what the store was on entry
         job_text |-> NoText, gen_text |-> NoText, failed |-> "None",
         store0 |-> <<>>,
         \* the prompt given to Gemini, the error text of the job, the call
         \* that failed, and the shared output file on entry
         prompt |-> NoText, job_error |-> "None", failed_call |-> "None",
         art0 |-> NoBody,
         \* saving the upload replaced a file that was there (known until
         \* the file is handed to the transcription provider)
         clobbered |-> FALSE]

\* JSONResponse(status_code=s, content={"error": e, "details": d, "audio_file": FALLBACK_AUDIO_URL})
ErrResp(s, e, d) ==
    [NoResp EXCEPT !.status = s, !.error = e, !.details = d,
                   !.audio_file = FALLBACK_AUDIO_URL]

\* A dict returned by a handler: HTTP 200.
OkResp == [NoResp EXCEPT !.status = 200]

Put(fs, p, c) == [q \in DOMAIN fs \cup {p} |-> IF q = p THEN c ELSE fs[q]]
Remove(fs, p) == [q \in DOMAIN fs \ {p} |-> fs[q]]

\* try: os.remove(p) except Exception: pass
TryRemove(fs, p) == IF p \in DOMAIN fs THEN Remove(fs, p) ELSE fs

\* Writing content c to path p replaces different bytes already there.
Replaces(p, c) == p \in DOMAIN files /\ files[p] # c

Turn(role, content) == [role |-> role, content |-> content]

History(s) == IF s \in DOMAIN chat_store THEN chat_store[s] ELSE <<>>

RECURSIVE SumLen(_)
SumLen(S) == IF S = {} THEN 0
             ELSE LET s == CHOOSE x \in S : TRUE
                  IN  Len(chat_store[s]) + SumLen(S \ {s})

TotalTurns == SumLen(DOMAIN chat_store)

\* Mutant: the role is written as it is stored, not capitalized.
Line_as_stored(m) ==
    TCat(<< <<IF m.role = "user" THEN "user: " ELSE "assistant: ", 1>> >>,
         m.content)

\* f"{m['role'].capitalize()}: {m['content']}"
Line(m) ==
    TCat(<< <<IF m.role = "user" THEN USER_LABEL ELSE ASSISTANT_LABEL, 1>> >>,
         m.content)

\* "\n".join([Line(m) for m in h])
RECURSIVE history_text(_)
history_text(h) ==
    IF h = <<>> THEN <<>>
    ELSE IF Len(h) = 1 THEN Line(h[1])
    ELSE TCat(Line(h[1]), TCat(<< <<NEWLINE, 1>> >>, history_text(Tail(h))))

\* gemini_voice, line 431
full_prompt(h) ==
    TCat(<< <<SYSTEM_CHUNK, 1>> >>,
         TCat(history_text(h), << <<ASSISTANT_CUE, 1>> >>))

\* Mutant: the turn is appended to the list of every session.
Append_turn_all(cs, s, turn) ==
    [q \in Sessions |-> (IF q \in DOMAIN cs THEN cs[q] ELSE <<>>) \o <<turn>>]

\* Mutant: the new turn is put in front of the list.
Append_turn_front(cs, s, turn) ==
    [q \in DOMAIN cs \cup {s} |->
        IF q = s THEN <<turn>> \o (IF s \in DOMAIN cs THEN cs[s] ELSE <<>>)
        ELSE cs[q]]

\* Mutant: the list is replaced by the new turn instead of extended.
Append_turn_replace(cs, s, turn) ==
    [q \in DOMAIN cs \cup {s} |-> IF q = s THEN <<turn>> ELSE cs[q]]

\* chat_store[session_id].append(turn), creating the list when missing
Append_turn(cs, s, turn) ==
    [q \in DOMAIN cs \cup {s} |->
        IF q = s THEN (IF s \in DOMAIN cs THEN cs[s] ELSE <<>>) \o <<turn>>
        ELSE cs[q]]

Init ==
    /\ req = Idle
    /\ chat_store = [s \in {} |-> <<>>]
    /\ files = [p \in {} |-> NoBody]
    /\ lastSynth = NoBody
    /\ stats = [s \in Sessions |-> [ok |-> 0, failed |-> 0]]
    /\ parked = Idle
    /\ replaced = FALSE


(***************************************************************************)
(* Shared pieces of the handlers.                                          *)
(***************************************************************************)
Called(c) == [req.calls EXCEPT ![c] = @ + 1]

Made(c) == [req EXCEPT !.calls = Called(c), !.clobbered = FALSE]

\* The frame after call c has been made and has failed.
Fail(c) == [Made(c) EXCEPT !.failed_call = c]

Respond(f, r) == [f EXCEPT !.pc = "responded", !.resp = r]

UsesHelpers == {"echobot_voice", "llm_query", "gemini_voice"}

SavedAudio == req.temp_filename # "None"

\* Mutant: the loop goes on after a completed status.
AfterSTT_keeps_polling == "poll"

\* Where a handler goes once poll_transcription has returned the text.
AfterSTT == CASE req.ep = "echobot_voice" -> "voices"
              [] req.ep = "llm_query"     -> "llm"
              [] req.ep = "gemini_voice"  -> "history"

\* The text a handler passes to generate_murf_audio_and_save.
SynthArg == CASE req.ep = "voice_text"    -> req.text
              [] req.ep = "echobot_voice" -> req.transcript_text
              [] req.ep = "echo_bot"      -> req.transcript_text
              [] OTHER                    -> req.llm_reply

\* Mutant: the cut is made one character early.
murf_text_off_by_one(text) ==
    IF TLen(text) >= MURF_MAX_CHARS THEN TPrefix(text, MURF_MAX_CHARS - 1) ELSE text

\* generate_murf_audio_and_save: the text put into the Murf payload.
murf_text(text) ==
    IF TLen(text) > MURF_MAX_CHARS THEN TPrefix(text, MURF_MAX_CHARS) ELSE text

\* The body of the `except Exception as e:` block that catches a failure of
\* the given stage ("stt", "llm", "tts") in the running handler.
ExceptResp(stage, details) ==
    CASE req.ep = "gemini_chat" ->
            ErrResp(500, "Failed to generate response", details)
      [] req.ep = "llm_query" /\ ~SavedAudio ->
            ErrResp(500, details, "None")
      [] stage = "stt" -> ErrResp(500, "STT failed", details)
      [] stage = "llm" -> ErrResp(500, "LLM failed", details)
      [] OTHER         -> ErrResp(500, "TTS failed", details)

\* Mutant: a failed generation leaves no assistant turn behind.
Raise_no_canned(stage, details, f) ==
    /\ files' = IF SavedAudio THEN TryRemove(files, req.temp_filename) ELSE files
    /\ chat_store' = chat_store
    /\ stats' =
         IF req.ep = "gemini_voice" /\ stage \in {"llm", "tts"}
         THEN [stats EXCEPT ![req.session_id].failed = @ + 1]
         ELSE stats
    /\ req' = [Respond(f, ExceptResp(stage, details)) EXCEPT !.failed = stage]
    /\ UNCHANGED <<lastSynth, parked, replaced>>

Raise(stage, details, f) ==
    /\ files' = IF SavedAudio THEN TryRemove(files, req.temp_filename) ELSE files
    /\ chat_store' =
         IF req.ep = "gemini_voice" /\ stage = "llm"
         THEN Append_turn(chat_store, req.session_id, Turn("assistant", CANNED))
         ELSE chat_store
    /\ stats' =
         IF req.ep = "gemini_voice" /\ stage \in {"llm", "tts"}
         THEN [stats EXCEPT ![req.session_id].failed = @ + 1]
         ELSE stats
    /\ req' = [Respond(f, ExceptResp(stage, details)) EXCEPT !.failed = stage]
    /\ UNCHANGED <<lastSynth, parked, replaced>>

(***************************************************************************)
(* Helper functions.                                                       *)
(***************************************************************************)
upload_to_assemblyai ==
    /\ req.pc = "upload"
    /\ req.ep \in UsesHelpers
    /\ IF req.temp_filename \notin DOMAIN files
       THEN Raise("stt", "No such file", req)
       ELSE \E o \in {"ok", "no_url", "bad", "exc"} :
              CASE o \in {"ok", "no_url"} ->
                     /\ req' = [Made("upload") EXCEPT !.pc = "start"]
                     /\ UNCHANGED <<chat_store, files, lastSynth, stats, parked, replaced>>
                [] o = "bad" -> Raise("stt", "AssemblyAI upload failed", Fail("upload"))
                [] OTHER     -> Raise("stt", "Connection error", Fail("upload"))

start_transcription ==
    /\ req.pc = "start"
    /\ req.ep \in UsesHelpers
    /\ \E o \in {"ok", "no_id", "bad", "exc"} :
         CASE o \in {"ok", "no_id"} ->
                /\ req' = [req EXCEPT !.pc = "poll", !.polls = 0,
                                      !.calls = Called("start")]
                /\ UNCHANGED <<chat_store, files, lastSynth, stats, parked, replaced>>
           [] o = "bad" ->
                Raise("stt", "AssemblyAI start transcription failed", Fail("start"))
           [] OTHER -> Raise("stt", "Connection error", Fail("start"))

\* Mutant: the loop gives up one attempt early.
max_tries_short == POLL_MAX_TRIES - 1

\* max_tries=60, as every caller passes it
max_tries == POLL_MAX_TRIES

\* One iteration of the for loop (a status request and what follows it),
\* or the raise after the loop once range(max_tries) is used up.  polls is
\* the loop counter: it is kept when the loop runs out and is gone when the
\* loop is left by return or raise.
poll_transcription ==
    /\ req.pc = "poll"
    /\ req.ep \in UsesHelpers
    /\ IF req.polls < max_tries
       THEN \E o \in {"processing", "completed", "error", "bad", "exc"} :
              LET issued == [req EXCEPT !.polls = @ + 1]
                  left   == [req EXCEPT !.polls = 0, !.failed_call = "poll"] IN
              CASE o = "processing" ->
                     /\ req' = issued
                     /\ UNCHANGED <<chat_store, files, lastSynth, stats, parked, replaced>>
                [] o = "completed" ->
                     \E t \in Transcripts :
                        /\ req' = [req EXCEPT !.polls = 0, !.transcript_text = t,
                                              !.job_text = t, !.pc = AfterSTT]
                        /\ UNCHANGED <<chat_store, files, lastSynth, stats, parked, replaced>>
                [] o = "error" ->
                     \E e \in JobErrors :
                        Raise("stt", "AssemblyAI transcription error: " \o e,
                              [left EXCEPT !.job_error = e])
                [] o = "bad" -> Raise("stt", "AssemblyAI poll failed", left)
                [] OTHER     -> Raise("stt", "Connection error", left)
       ELSE Raise("stt", "Transcription timed out", req)

\* Mutant: the audio path of /llm/query passes the JSON text field.
LLMPrompt_from_text == CASE req.ep = "gemini_voice" -> req.prompt
                         [] OTHER                   -> req.text

\* The argument of gemini_generate at its call sites (lines 152, 320, 355, 434).
LLMPrompt == CASE req.ep = "gemini_voice"            -> req.prompt
               [] req.ep = "llm_query" /\ SavedAudio -> req.transcript_text
               [] OTHER                              -> req.text

gemini_generate ==
    /\ req.pc = "llm"
    /\ \E o \in {"ok", "exc"} :
         LET asked == [Made("llm") EXCEPT !.prompt = LLMPrompt] IN
         IF o = "exc"
         THEN Raise("llm", "Gemini error", [asked EXCEPT !.failed_call = "llm"])
         ELSE \E r \in Replies :
                /\ UNCHANGED <<files, lastSynth, stats, parked, replaced>>
                /\ IF req.ep = "gemini_chat" \/ (req.ep = "llm_query" /\ ~SavedAudio)
                   THEN /\ req' = Respond([asked EXCEPT !.gen_text = r],
                                           [OkResp EXCEPT !.response = r])
                        /\ UNCHANGED chat_store
                   ELSE /\ req' = [asked EXCEPT !.llm_reply = TStrip(r),
                                                !.gen_text = r,
                                                !.pc = "voices"]
                        /\ chat_store' =
                             IF req.ep = "gemini_voice"
                             THEN Append_turn(chat_store, req.session_id,
                                              Turn("assistant", TStrip(r)))
                             ELSE chat_store

get_murf_voice_id ==
    /\ req.pc = "voices"
    /\ req.ep # "echo_bot"
    /\ \E o \in {"ok", "bad", "malformed", "exc"} :
         CASE o = "ok" ->
                /\ req' = [req EXCEPT !.pc = "speech", !.calls = Called("voices")]
                /\ UNCHANGED <<chat_store, files, lastSynth, stats, parked, replaced>>
           [] o = "bad" -> Raise("tts", "Failed to fetch Murf voices", Fail("voices"))
           [] o = "malformed" ->
                Raise("tts", "Unexpected voices format from Murf", Fail("voices"))
           [] OTHER -> Raise("tts", "Connection error", Fail("voices"))

\* generate_murf_audio_and_save, lines 109-120: truncate, build the payload,
\* POST /v1/speech/generate.
murf_generate_speech ==
    /\ req.pc = "speech"
    /\ req.ep # "echo_bot"
    /\ \E o \in {"ok", "bad", "no_url", "exc"} :
         LET sent == [req EXCEPT !.payload_text = murf_text(SynthArg),
                                 !.calls = Called("speech")]
             lost == [sent EXCEPT !.failed_call = "speech"]
         IN  CASE o = "ok" ->
                    /\ req' = [sent EXCEPT !.pc = "download"]
                    /\ UNCHANGED <<chat_store, files, lastSynth, stats, parked, replaced>>
               [] o = "bad" ->
                    /\ Raise("tts", "Murf TTS failed", lost)
               [] o = "no_url" ->
                    /\ Raise("tts", "Murf returned no audioFile URL", lost)
               [] OTHER ->
                    /\ Raise("tts", "Connection error", lost)

\* Mutant: each request writes a file of its own.
out_path_per_request == "murf_" \o req.ep \o ".mp3"

\* mp3_path = "murf_output.mp3", passed as out_path by every caller
out_path == MP3_PATH

\* generate_murf_audio_and_save, lines 121-126: download and write out_path.
murf_download_and_save ==
    /\ req.pc = "download"
    /\ req.ep # "echo_bot"
    /\ \E o \in {"ok", "bad", "exc"} :
         CASE o = "ok" ->
                /\ files' = Put(files, out_path, Audio(req.payload_text))
                /\ lastSynth' = Audio(req.payload_text)
                /\ replaced' = Replaces(out_path, Audio(req.payload_text))
                /\ req' = [req EXCEPT !.pc = "return",
                                      !.calls = [Called("download") EXCEPT !.write = @ + 1]]
                /\ UNCHANGED <<chat_store, stats, parked>>
           [] o = "bad" ->
                Raise("tts", "Failed to download Murf audio", Fail("download"))
           [] OTHER -> Raise("tts", "Connection error", Fail("download"))


(***************************************************************************)
(* Handlers: entry (up to the first provider call) and return.             *)
(***************************************************************************)
\* What murf_output.mp3 holds, NoBody when it does not exist.
Artifact == IF MP3_PATH \in DOMAIN files THEN files[MP3_PATH] ELSE NoBody

Start(ep) == [Idle EXCEPT !.ep = ep, !.store0 = chat_store, !.art0 = Artifact]

\* temp_filename = f"temp_{int(time.time())}.webm"; copy the upload into it
SaveUpload(ep, sid, name) ==
    /\ req' = [Start(ep) EXCEPT !.session_id = sid, !.temp_filename = name,
                                !.clobbered = Replaces(name, Upload(ep)),
                                !.pc = "upload"]
    /\ files' = Put(files, name, Upload(ep))
    /\ UNCHANGED <<chat_store, lastSynth, stats, parked, replaced>>

\* POST /gemini
gemini_chat ==
    /\ req.pc = "idle"
    /\ \E prompt \in TextInputs :
         /\ req' = IF Falsy(prompt)
                   THEN Respond([Start("gemini_chat") EXCEPT !.text = prompt],
                                [NoResp EXCEPT !.status = 400,
                                    !.error = "Prompt or text field is required"])
                   ELSE [Start("gemini_chat") EXCEPT !.text = prompt, !.pc = "llm"]
         /\ UNCHANGED <<chat_store, files, lastSynth, stats, parked, replaced>>

\* POST /tts/echo/
echo_bot ==
    /\ req.pc = "idle"
    /\ \E name \in TempNames : SaveUpload("echo_bot", "None", name)

\* POST /echobot/voice/{session_id}: session_id is never read
echobot_voice ==
    /\ req.pc = "idle"
    /\ \E sid \in Sessions, name \in TempNames :
         SaveUpload("echobot_voice", "None", name)

\* POST /llm/query
llm_query ==
    /\ req.pc = "idle"
    /\ \/ \E name \in TempNames : SaveUpload("llm_query", "None", name)
       \/ /\ req' = Respond(Start("llm_query"),
                            ErrResp(400, "No audio file provided", "None"))
          /\ UNCHANGED <<chat_store, files, lastSynth, stats, parked, replaced>>
       \/ /\ req' = [Start("llm_query") EXCEPT !.pc = "json"]
          /\ UNCHANGED <<chat_store, files, lastSynth, stats, parked, replaced>>

\* llm_query, lines 351-354: the JSON body has arrived
llm_query_json ==
    /\ req.pc = "json"
    /\ \E prompt \in TextInputs :
         /\ req' = IF Falsy(prompt)
                   THEN Respond([req EXCEPT !.text = prompt],
                                ErrResp(400, "Text or prompt field is required", "None"))
                   ELSE [req EXCEPT !.text = prompt, !.pc = "llm"]
         /\ UNCHANGED <<chat_store, files, lastSynth, stats, parked, replaced>>

\* Mutant: every provider call is awaited, as with an asynchronous client.
AwaitPoint_at_calls(f) ==
    f.pc \in {"json", "upload", "start", "poll", "llm", "voices", "speech", "download"}

\* The positions at which a handler of main.py awaits: `await request.json()`
\* (line 351) is the only await expression of the file.
AwaitPoint(f) == f.ep = "llm_query" /\ f.pc = "json"

\* The awaiting handler gives up the event loop; another handler may run.
await_suspend ==
    /\ AwaitPoint(req)
    /\ parked = Idle
    /\ parked' = [req EXCEPT !.store0 = <<>>, !.art0 = NoBody]
    /\ req' = Idle
    /\ UNCHANGED <<chat_store, files, lastSynth, stats, replaced>>

\* The event loop is free and the awaited value is there: the handler goes
\* on.  store0 and art0 are taken again: they are the store and the
\* output file at the moment the handler last got the event loop.
await_resume ==
    /\ req.pc = "idle"
    /\ parked # Idle
    /\ req' = [parked EXCEPT !.store0 = chat_store, !.art0 = Artifact]
    /\ parked' = Idle
    /\ UNCHANGED <<chat_store, files, lastSynth, stats, replaced>>

\* POST /voice/text
voice_text ==
    /\ req.pc = "idle"
    /\ \E text \in TextInputs :
         /\ req' = IF Falsy(text)
                   THEN Respond([Start("voice_text") EXCEPT !.text = text],
                                ErrResp(400, "Text is required", "None"))
                   ELSE [Start("voice_text") EXCEPT !.text = text, !.pc = "voices"]
         /\ UNCHANGED <<chat_store, files, lastSynth, stats, parked, replaced>>

\* POST /gemini/voice/{session_id}
gemini_voice ==
    /\ req.pc = "idle"
    /\ TotalTurns + 2 <= MaxTurns
    /\ \E sid \in Sessions, name \in TempNames :
         SaveUpload("gemini_voice", sid, name)

\* gemini_voice, lines 424-431: append the user turn, build the prompt
gemini_voice_history ==
    /\ req.pc = "history"
    /\ chat_store' = Append_turn(chat_store, req.session_id,
                                 Turn("user", req.transcript_text))
    /\ req' = [req EXCEPT !.pc = "llm",
                          !.prompt = full_prompt(chat_store'[req.session_id])]
    /\ UNCHANGED <<files, lastSynth, stats, parked, replaced>>

\* Mutant: the response carries the text as it was sent to Murf.
SuccessResp_sent ==
    [OkResp EXCEPT !.audio_file = PLAY_AUDIO_URL, !.transcript = req.payload_text,
                   !.reply = req.payload_text]

\* What a handler returns once generate_murf_audio_and_save has returned.
SuccessResp ==
    LET ok == [OkResp EXCEPT !.audio_file = PLAY_AUDIO_URL] IN
    CASE req.ep = "voice_text"    -> [ok EXCEPT !.reply = req.text]
      [] req.ep = "echobot_voice" -> [ok EXCEPT !.transcript = req.transcript_text]
      [] req.ep = "llm_query"     -> [ok EXCEPT !.transcript = req.transcript_text,
                                                !.llm_response = req.llm_reply]
      [] OTHER                    -> [ok EXCEPT !.transcript = req.transcript_text,
                                                !.reply = req.llm_reply]

\* The handler's success path after synthesis: remove the temp file, return.
handler_return ==
    /\ req.pc = "return"
    /\ files' = IF SavedAudio THEN TryRemove(files, req.temp_filename) ELSE files
    /\ stats' = IF req.ep = "gemini_voice"
                THEN [stats EXCEPT ![req.session_id].ok = @ + 1]
                ELSE stats
    /\ req' = Respond(req, SuccessResp)
    /\ UNCHANGED <<chat_store, lastSynth, parked, replaced>>

\* GET /play-audio
play_audio ==
    /\ req.pc = "idle"
    /\ req' = IF MP3_PATH \in DOMAIN files
              THEN Respond(Start("play_audio"), [OkResp EXCEPT !.body = files[MP3_PATH]])
              ELSE Respond(Start("play_audio"),
                           [NoResp EXCEPT !.status = 404,
                                          !.error = "Audio file not found",
                                          !.audio_file = FALLBACK_AUDIO_URL])
    /\ UNCHANGED <<chat_store, files, lastSynth, stats, parked, replaced>>

\* The response leaves the server; the handler's frame is gone.
send_response ==
    /\ req.pc = "responded"
    /\ req' = Idle
    /\ UNCHANGED <<chat_store, files, lastSynth, stats, parked, replaced>>


(***************************************************************************)
(* echo_bot (/tts/echo/): the pipeline written inline.                     *)
(***************************************************************************)
\* except Exception (line 230): the outermost handler; removes nothing.
echo_unexpected(f, stage) ==
    /\ req' = [Respond(f, ErrResp(500, "Unexpected error", "exception"))
                  EXCEPT !.failed = stage]
    /\ UNCHANGED files

\* os.remove(temp_filename), unguarded, then go on as frame `then`.
echo_remove(then) ==
    IF req.temp_filename \in DOMAIN files
    THEN /\ files' = Remove(files, req.temp_filename)
         /\ req' = then
    ELSE echo_unexpected(then, then.failed)

Failed(f, stage, r) == [Respond(f, r) EXCEPT !.failed = stage]

\* lines 168-177
echo_bot_upload ==
    /\ req.pc = "upload"
    /\ req.ep = "echo_bot"
    /\ UNCHANGED <<chat_store, lastSynth, stats, parked, replaced>>
    /\ IF req.temp_filename \notin DOMAIN files
       THEN echo_unexpected(req, "stt")
       ELSE \E o \in {"ok", "no_url", "bad", "exc"} :
              CASE o = "ok" ->
                     /\ req' = [Made("upload") EXCEPT !.pc = "start"]
                     /\ UNCHANGED files
                [] o = "bad" ->
                     echo_remove(Failed(Fail("upload"), "stt",
                                        ErrResp(500, "Upload failed", "provider text")))
                [] o = "no_url" ->
                     echo_remove(Failed(Fail("upload"), "stt",
                                        ErrResp(500, "Upload URL missing", "None")))
                [] OTHER -> echo_unexpected(Fail("upload"), "stt")

\* lines 179-187
echo_bot_start ==
    /\ req.pc = "start"
    /\ req.ep = "echo_bot"
    /\ UNCHANGED <<chat_store, lastSynth, stats, parked, replaced>>
    /\ \E o \in {"ok", "no_id", "bad", "exc"} :
         CASE o = "ok" ->
                /\ req' = [Made("start") EXCEPT !.pc = "poll", !.polls = 0]
                /\ UNCHANGED files
           [] o = "bad" ->
                echo_remove(Failed(Fail("start"), "stt",
                                   ErrResp(500, "Transcription start failed", "provider text")))
           [] o = "no_id" ->
                echo_remove(Failed(Fail("start"), "stt",
                                   ErrResp(500, "Transcript ID missing", "None")))
           [] OTHER -> echo_unexpected(Fail("start"), "stt")

\* Mutant: the temp file is kept after the loop.
echo_after_loop_keep(f) ==
    /\ req' = IF Falsy(f.transcript_text)
              THEN Failed(f, IF f.transcript_text = NoText THEN "stt" ELSE f.failed,
                          ErrResp(504, "Transcription timed out.", "None"))
              ELSE [f EXCEPT !.pc = "voices"]
    /\ UNCHANGED files

\* lines 202-204, reached by break or when range(20) is used up
echo_after_loop(f) ==
    echo_remove(IF Falsy(f.transcript_text)
                THEN Failed(f, IF f.transcript_text = NoText THEN "stt" ELSE f.failed,
                            ErrResp(504, "Transcription timed out.", "None"))
                ELSE [f EXCEPT !.pc = "voices"])

\* lines 189-204: one iteration of the loop, or the code after it.  The
\* status code of the poll response is not looked at: a non-200 answer
\* either has no JSON body (json() raises) or has no "status" (loop goes on).
echo_bot_poll ==
    /\ req.pc = "poll"
    /\ req.ep = "echo_bot"
    /\ UNCHANGED <<chat_store, lastSynth, stats, parked, replaced>>
    /\ IF req.polls < ECHO_POLL_TRIES
       THEN \E o \in {"processing", "completed", "error", "bad", "bad_json", "exc"} :
              LET issued == [req EXCEPT !.polls = @ + 1]
                  left   == [req EXCEPT !.polls = 0, !.failed_call = "poll"] IN
              CASE o = "processing" ->
                     /\ req' = issued
                     /\ UNCHANGED files
                [] o = "bad" ->
                     /\ req' = [issued EXCEPT !.failed = "stt"]
                     /\ UNCHANGED files
                [] o = "completed" ->
                     \E t \in Transcripts :
                        echo_after_loop([req EXCEPT !.polls = 0, !.transcript_text = t,
                                                   !.job_text = t])
                [] o = "error" ->
                     \E e \in JobErrors :
                        echo_remove(Failed([left EXCEPT !.job_error = e],
                                           "stt", ErrResp(500, e, "None")))
                [] OTHER -> echo_unexpected(left, "stt")
       ELSE echo_after_loop(req)

\* lines 208-212
echo_bot_voices ==
    /\ req.pc = "voices"
    /\ req.ep = "echo_bot"
    /\ UNCHANGED <<chat_store, files, lastSynth, stats, parked, replaced>>
    /\ \E o \in {"ok", "bad", "malformed", "exc"} :
         CASE o = "ok"  -> req' = [Made("voices") EXCEPT !.pc = "speech"]
           [] o = "bad" -> req' = Failed(Fail("voices"), "tts",
                                   ErrResp(500, "Failed to fetch voices", "provider text"))
           [] OTHER     -> req' = Failed(Fail("voices"), "tts",
                                   ErrResp(500, "Murf TTS error", "exception"))

\* lines 213-220: the transcript goes into the payload as it is
echo_bot_speech ==
    /\ req.pc = "speech"
    /\ req.ep = "echo_bot"
    /\ UNCHANGED <<chat_store, files, lastSynth, stats, parked, replaced>>
    /\ \E o \in {"ok", "bad", "no_url", "exc"} :
         LET sent == [Made("speech") EXCEPT !.payload_text = req.transcript_text]
             lost == [sent EXCEPT !.failed_call = "speech"]
         IN  CASE o = "ok"  -> req' = [sent EXCEPT !.pc = "download"]
               [] o = "bad" -> req' = Failed(lost, "tts",
                                       ErrResp(500, "Murf API failed", "provider text"))
               [] o = "no_url" -> req' = Failed(lost, "tts",
                                       ErrResp(500, "No audio file returned", "None"))
               [] OTHER     -> req' = Failed(lost, "tts",
                                       ErrResp(500, "Murf TTS error", "exception"))

\* lines 221-229: the body of the download response is written whatever
\* its status code, and the handler returns 200.
echo_bot_download ==
    /\ req.pc = "download"
    /\ req.ep = "echo_bot"
    /\ UNCHANGED <<chat_store, stats, parked>>
    /\ \E o \in {"ok", "bad", "exc"} :
         IF o = "exc"
         THEN /\ req' = Failed(Fail("download"), "tts",
                               ErrResp(500, "Murf TTS error", "exception"))
              /\ UNCHANGED <<files, lastSynth, replaced>>
         ELSE LET bytes == IF o = "ok" THEN Audio(req.payload_text) ELSE ErrorBody
                  f == [req EXCEPT !.calls = [Called("download") EXCEPT !.write = @ + 1],
                                   !.failed = IF o = "ok" THEN @ ELSE "tts",
                                   !.failed_call = IF o = "ok" THEN @ ELSE "download"]
              IN  /\ files' = Put(files, MP3_PATH, bytes)
                  /\ lastSynth' = bytes
                  /\ replaced' = Replaces(MP3_PATH, bytes)
                  /\ req' = Respond(f, [OkResp EXCEPT
                                           !.audio_file = PLAY_AUDIO_URL,
                                           !.transcript = req.transcript_text])

Next ==
    \/ gemini_chat
    \/ echo_bot
    \/ echo_bot_upload
    \/ echo_bot_start
    \/ echo_bot_poll
    \/ echo_bot_voices
    \/ echo_bot_speech
    \/ echo_bot_download
    \/ echobot_voice
    \/ llm_query
    \/ llm_query_json
    \/ await_suspend
    \/ await_resume
    \/ voice_text
    \/ gemini_voice
    \/ gemini_voice_history
    \/ upload_to_assemblyai
    \/ start_transcription
    \/ poll_transcription
    \/ gemini_generate
    \/ get_murf_voice_id
    \/ murf_generate_speech
    \/ murf_download_and_save
    \/ handler_return
    \/ play_audio
    \/ send_response

Spec == Init /\ [][Next]_vars


(***************************************************************************)
(* stt_app.py, a FastAPI application of its own: POST /stt.                *)
(***************************************************************************)
\* except Exception as e: return JSONResponse({"error": str(e)}, status_code=500)
stt_except(f, e) ==
    /\ req' = Respond(f, [NoResp EXCEPT !.status = 500, !.error = e])
    /\ UNCHANGED files

\* lines 28-33: save the upload as temp_<filename>
speech_to_text ==
    /\ req.pc = "idle"
    /\ \E name \in SttNames :
         /\ req' = [Start("speech_to_text") EXCEPT !.temp_filename = name,
                                                   !.pc = "stt_upload"]
         /\ files' = Put(files, name, Upload("speech_to_text"))
    /\ UNCHANGED <<chat_store, lastSynth, stats, parked, replaced>>

\* lines 35-40: upload; the status code is not looked at
stt_upload ==
    /\ req.pc = "stt_upload"
    /\ UNCHANGED <<chat_store, lastSynth, stats, parked, replaced>>
    /\ \E o \in {"ok", "no_url", "exc"} :
         CASE o = "ok" ->
                /\ req' = [Made("upload") EXCEPT !.pc = "stt_request"]
                /\ UNCHANGED files
           [] o = "no_url" -> stt_except(Fail("upload"), "'upload_url'")
           [] OTHER        -> stt_except(Fail("upload"), "Connection error")

\* lines 42-46: request the transcription
stt_request ==
    /\ req.pc = "stt_request"
    /\ UNCHANGED <<chat_store, lastSynth, stats, parked, replaced>>
    /\ \E o \in {"ok", "no_id", "exc"} :
         CASE o = "ok" ->
                /\ req' = [Made("start") EXCEPT !.pc = "stt_poll", !.polls = 0]
                /\ UNCHANGED files
           [] o = "no_id" -> stt_except(Fail("start"), "'id'")
           [] OTHER       -> stt_except(Fail("start"), "Connection error")

\* lines 49-57: one iteration of `while True:`.  The loop has no counter;
\* polls counts the status requests it has issued.
stt_poll ==
    /\ req.pc = "stt_poll"
    /\ UNCHANGED <<chat_store, lastSynth, stats, parked, replaced>>
    /\ \E o \in {"processing", "completed", "error", "no_status", "exc"} :
         LET left == [req EXCEPT !.polls = 0, !.failed_call = "poll"] IN
         CASE o = "processing" ->
                /\ req.polls < MaxSttPolls
                /\ req' = [req EXCEPT !.polls = @ + 1]
                /\ UNCHANGED files
           [] o = "completed" ->
                \E t \in Transcripts :
                   /\ req' = Respond([req EXCEPT !.polls = 0, !.job_text = t],
                                     [OkResp EXCEPT !.text = t])
                   /\ files' = Remove(files, req.temp_filename)
           [] o = "error" ->
                \E e \in JobErrors :
                   /\ req' = Respond([left EXCEPT !.job_error = e],
                                     [NoResp EXCEPT !.status = 500, !.error = e])
                   /\ files' = Remove(files, req.temp_filename)
           [] o = "no_status" -> stt_except(left, "'status'")
           [] OTHER           -> stt_except(left, "Connection error")

NextStt ==
    \/ speech_to_text
    \/ stt_upload
    \/ stt_request
    \/ stt_poll
    \/ send_response

SpecStt == Init /\ [][NextStt]_vars


(***************************************************************************)
(* Properties.                                                             *)
(***************************************************************************)
Responded(ep) == req.pc = "responded" /\ req.ep = ep

Is2xx(r) == r.status >= 200 /\ r.status <= 299

Count(h, role) == Cardinality({i \in 1..Len(h) : h[i].role = role})

History0(s) == IF s \in DOMAIN req.store0 THEN req.store0[s] ELSE <<>>

\* C1: an echo-by-voice request (/tts/echo/, /echobot/voice/) whose
\* transcription job completed with text t and whose synthesis succeeded is
\* answered 200 with transcript = t, the provider's text, unaltered; and no
\* echo-by-voice success response carries anything else.
C1_EchoTranscriptUnaltered ==
    (req.pc = "responded" /\ req.ep \in {"echo_bot", "echobot_voice"}) =>
        /\ Is2xx(req.resp) =>
              req.job_text # NoText /\ req.resp.transcript = req.job_text
        /\ (req.job_text # NoText /\ req.calls.write > 0 /\ req.failed = "None") =>
              Is2xx(req.resp) /\ req.resp.transcript = req.job_text

C1_Witness ==
    /\ Responded("echobot_voice")
    /\ req.resp.status = 200
    /\ req.job_text = EMPTY
    /\ req.resp.transcript = EMPTY

\* C2: a request in which a transcription, generation or synthesis step
\* failed is answered non-2xx with audio_file = the fallback reference.
C2_FailureYieldsFallback ==
    (req.pc = "responded" /\ req.failed # "None") =>
        /\ ~Is2xx(req.resp)
        /\ req.resp.audio_file = FALLBACK_AUDIO_URL
        /\ req.resp.audio_file # PLAY_AUDIO_URL

\* C3 as claimed: with no request running, a session with N successful
\* turns has exactly N user turns and N assistant turns.
C3_ExactlyNTurns ==
    req.pc = "idle" =>
        \A s \in Sessions :
            /\ Count(History(s), "user") = stats[s].ok
            /\ Count(History(s), "assistant") = stats[s].ok

\* C3 amended: with no request running, a session with N successful turns
\* and F requests that failed after transcription has exactly N + F user
\* turns and N + F assistant turns, alternating user, assistant in append
\* order.
C3_TurnsOfAnsweredRequests ==
    req.pc = "idle" =>
        \A s \in Sessions :
            /\ Count(History(s), "user") = stats[s].ok + stats[s].failed
            /\ Count(History(s), "assistant") = stats[s].ok + stats[s].failed
            /\ \A i \in 1..Len(History(s)) :
                  History(s)[i].role = IF i % 2 = 1 THEN "user" ELSE "assistant"

C3_Witness ==
    /\ req.pc = "idle"
    /\ \E s \in Sessions : stats[s].ok = 1 /\ stats[s].failed = 1

\* C4: the text submitted to Murf's speech generation is the first 3000
\* characters of the text to synthesize when that is longer than 3000
\* characters, and the text itself otherwise.
C4_TruncatedTo3000 ==
    req.calls.speech > 0 =>
        req.payload_text = IF TLen(SynthArg) > 3000
                           THEN TPrefix(SynthArg, 3000)
                           ELSE SynthArg

PollBudget == IF req.ep = "echo_bot" THEN ECHO_POLL_TRIES ELSE POLL_MAX_TRIES

TimedOut(f) ==
    /\ f.pc = "responded"
    /\ \/ f.resp.details = "Transcription timed out"
       \/ f.resp.status = 504 /\ f.transcript_text = NoText

\* C5: the poll loop never issues more than max_attempts status requests
\* (60 in poll_transcription, 20 in /tts/echo/); a request that times out
\* without having seen a terminal status has issued exactly max_attempts;
\* and once max_attempts requests were answered with a non-terminal status
\* the next step is the timeout error.
C5_TimeoutExactlyAtBudget ==
    /\ [](/\ req.polls <= PollBudget
          /\ TimedOut(req) => req.polls = PollBudget)
    /\ [][(req.pc = "poll" /\ req.polls = PollBudget) => TimedOut(req')]_vars

C5_Witness ==
    /\ Responded("echobot_voice")
    /\ req.resp.details = "Transcription timed out"
    /\ req.polls = 60

\* C6: when a request that saved an uploaded-audio temp file has its
\* response, the temp file no longer exists.
C6_TempFileRemoved ==
    (req.pc = "responded" /\ req.temp_filename # "None") =>
        req.temp_filename \notin DOMAIN files

\* C7: once a step has failed no later step runs: nothing after a failed
\* transcription (no generation, no synthesis call, no history append),
\* no synthesis call after a failed generation, no write of the shared
\* artifact after a failed synthesis.
C7_ShortCircuit ==
    LET c == req.calls IN
    /\ req.failed = "stt" =>
          /\ c.llm = 0 /\ c.voices = 0 /\ c.speech = 0 /\ c.download = 0
          /\ c.write = 0
          /\ chat_store = req.store0
    /\ req.failed = "llm" =>
          c.voices = 0 /\ c.speech = 0 /\ c.download = 0 /\ c.write = 0
    /\ req.failed = "tts" => c.write = 0

\* C8: /voice/text with a non-empty text t of at most 3000 characters: a
\* success response is {reply: t, audio_file: /play-audio}, the shared file
\* then holds the audio Murf produced for exactly t, and GET /play-audio
\* returns the bytes of the latest synthesis write.
C8_EchoByText ==
    /\ (Responded("voice_text") /\ Is2xx(req.resp) /\ TLen(req.text) <= 3000) =>
          /\ req.resp.reply = req.text
          /\ req.resp.audio_file = PLAY_AUDIO_URL
          /\ MP3_PATH \in DOMAIN files
          /\ files[MP3_PATH] = Audio(req.text)
          /\ lastSynth = Audio(req.text)
    /\ (Responded("play_audio") /\ lastSynth # NoBody) =>
          req.resp.status = 200 /\ req.resp.body = lastSynth

C8_Witness ==
    /\ Responded("voice_text")
    /\ req.resp.status = 200
    /\ req.text = EXACT
    /\ files[MP3_PATH] = Audio(EXACT)

\* C9: a /gemini/voice request that passed transcription has appended to
\* its session's history exactly the user turn (the transcript) followed by
\* one assistant turn: the generated reply (stripped), or the canned
\* failure text when generation failed; one whose transcription failed has
\* appended nothing; a synthesis failure leaves both turns in place.
C9_TurnsPerRequest ==
    Responded("gemini_voice") =>
        IF req.job_text = NoText
        THEN chat_store = req.store0
        ELSE /\ History(req.session_id) =
                   History0(req.session_id) \o
                   << Turn("user", req.job_text),
                      Turn("assistant", IF req.failed = "llm"
                                        THEN CANNED
                                        ELSE TStrip(req.gen_text)) >>
             /\ \A s \in Sessions \ {req.session_id} : History(s) = History0(s)

C9_Witness ==
    /\ Responded("gemini_voice")
    /\ req.failed = "llm"
    /\ Len(History0(req.session_id)) = 2
    /\ Len(History(req.session_id)) = 4

\* C10: GET /play-audio returns the bytes of the latest synthesis write of
\* the shared file, whichever request made it, and 404 with the fallback
\* reference when no synthesis has written it; apart from uploaded-audio
\* temp files the directory never holds more than one file.
C10_LatestArtifact ==
    /\ Responded("play_audio") =>
          IF lastSynth = NoBody
          THEN /\ req.resp.status = 404
               /\ req.resp.audio_file = FALLBACK_AUDIO_URL
               /\ req.resp.body = NoBody
          ELSE /\ req.resp.status = 200
               /\ req.resp.body = lastSynth
    /\ Cardinality(DOMAIN files \ TempNames) <= 1

C10_Witness ==
    /\ Responded("play_audio")
    /\ req.resp.status = 200
    /\ req.resp.body = Audio(EXACT)
    /\ lastSynth = Audio(EXACT)

\* C11: POST /llm/query with an audio attachment, when it succeeds, has
\* transcribed the audio, generated a reply from the transcript alone,
\* synthesized the stripped reply, and returns transcript, llm_response and
\* audio_file; without an attachment it makes no synthesis call, leaves the
\* shared output file and every session history unchanged, and when it
\* succeeds it has generated from the JSON text and returns only {response}.
C11_DualMode ==
    Responded("llm_query") =>
        IF SavedAudio
        THEN Is2xx(req.resp) =>
                /\ req.job_text # NoText
                /\ req.calls.llm = 1
                /\ req.prompt = req.job_text
                /\ req.calls.speech = 1
                /\ req.calls.write = 1
                /\ req.payload_text = murf_text(TStrip(req.gen_text))
                /\ req.resp = [OkResp EXCEPT !.transcript = req.job_text,
                                             !.llm_response = TStrip(req.gen_text),
                                             !.audio_file = PLAY_AUDIO_URL]
        ELSE /\ req.calls.voices = 0
             /\ req.calls.speech = 0
             /\ req.calls.download = 0
             /\ req.calls.write = 0
             /\ Artifact = req.art0
             /\ chat_store = req.store0
             /\ Is2xx(req.resp) =>
                   /\ ~Falsy(req.text)
                   /\ req.calls.llm = 1
                   /\ req.prompt = req.text
                   /\ req.resp = [OkResp EXCEPT !.response = req.gen_text]

C11_Witness ==
    /\ Responded("llm_query")
    /\ SavedAudio
    /\ req.resp.status = 200
    /\ req.resp.transcript = OVER
    /\ req.resp.llm_response = TStrip(PADOVER)
    /\ Artifact = Audio(EXACT)

\* C12: a text request with neither a non-empty prompt nor a non-empty text
\* (POST /gemini, POST /voice/text, the JSON path of POST /llm/query) is
\* answered 400, for /gemini with the body
\* {error: "Prompt or text field is required"} and nothing else, with no
\* provider call made and the output file and every history unchanged.
C12_EmptyTextRejected ==
    (/\ req.ep \in {"gemini_chat", "voice_text", "llm_query"}
     /\ ~SavedAudio
     /\ req.text = EMPTY) =>
        /\ req.pc = "responded"
        /\ req.resp.status = 400
        /\ req.calls = NoCalls
        /\ Artifact = req.art0
        /\ chat_store = req.store0
        /\ req.ep = "gemini_chat" =>
              req.resp = [NoResp EXCEPT !.status = 400,
                                        !.error = "Prompt or text field is required"]

C12_Witness ==
    /\ Responded("gemini_chat")
    /\ req.text = EMPTY
    /\ req.resp.status = 400
    /\ req.art0 = Audio(EXACT)
    /\ TotalTurns = 2

\* C13: every request that wrote murf_output.mp3 is answered with a success
\* referencing /play-audio, and GET /play-audio returns the bytes of the
\* latest write also when that write replaced the different audio an
\* earlier request was answered with: the earlier client is then served
\* the audio of another client's request.
C13_ServedLatestWrite ==
    /\ (req.pc = "responded" /\ req.calls.write > 0) =>
          /\ Is2xx(req.resp)
          /\ req.resp.audio_file = PLAY_AUDIO_URL
          /\ Artifact = lastSynth
    /\ (Responded("play_audio") /\ replaced) =>
          /\ req.resp.status = 200
          /\ req.resp.body = lastSynth

C13_Witness ==
    /\ Responded("play_audio")
    /\ replaced
    /\ req.resp.status = 200
    /\ req.resp.body = Audio(EXACT)

\* C14 as claimed: a /gemini/voice request that has appended its user turn
\* and not yet its assistant turn can give up the event loop there, so
\* that another request for the same session appends in between.
C14_SuspendedBetweenAppends ==
    (req.ep = "gemini_voice" /\ req.pc = "llm") => ENABLED await_suspend

\* C14 amended: requests for the same session never interleave their
\* appends.  In every state, also while requests are running or awaiting,
\* each session's history alternates user, assistant from its first turn
\* on (so it never holds two user turns in a row), and a turn without its
\* answer is the last turn and belongs to the one running request.
C14_AppendsNotInterleaved ==
    \A s \in Sessions :
        /\ \A i \in 1..Len(History(s)) :
              History(s)[i].role = IF i % 2 = 1 THEN "user" ELSE "assistant"
        /\ Len(History(s)) % 2 = 1 =>
              /\ req.ep = "gemini_voice"
              /\ req.session_id = s
              /\ req.pc = "llm"

C14_Witness ==
    /\ req.ep = "gemini_voice"
    /\ req.pc = "llm"
    /\ parked # Idle
    /\ Len(History(req.session_id)) = 3
    /\ History(req.session_id)[3] = Turn("user", OVER)

C16_PollLoopsBounded ==
    req.polls <= PollBudget

\* C17: the poll loop (poll_transcription and the loop of /tts/echo/) stops
\* at the first terminal status.  Once a status request was answered
\* completed the handler holds the job's text and issues no further status
\* request; once one was answered error the request has failed with a
\* response carrying the provider's error text and issues no further
\* status request; an iteration is followed by another one only when no
\* terminal status has been seen, and status requests are issued nowhere
\* but in the loop.
C17_StopsAtTerminalStatus ==
    /\ [](/\ req.job_text # NoText =>
               /\ req.pc # "poll"
               /\ req.transcript_text = req.job_text
          /\ req.job_error # "None" =>
               /\ req.pc = "responded"
               /\ ~Is2xx(req.resp)
               /\ IF req.ep = "echo_bot"
                  THEN req.resp.error = req.job_error
                  ELSE req.resp.details =
                          "AssemblyAI transcription error: " \o req.job_error)
    /\ [][/\ (req.pc = "poll" /\ req'.pc = "poll") =>
               /\ req'.polls = req.polls + 1
               /\ req'.job_text = NoText
               /\ req'.job_error = "None"
          /\ req'.polls > req.polls => (req.pc = "poll" /\ req'.pc = "poll")]_vars

C17_Witness ==
    /\ Responded("echobot_voice")
    /\ req.job_error = "audio too short"
    /\ req.resp.status = 500
    /\ req.resp.details = "AssemblyAI transcription error: audio too short"

\* Position of a handler in the order received, audio saved, transcribed,
\* history updated, reply generated, synthesized, temp cleanup, responded.
Rank(pc) ==
    CASE pc = "idle"      -> 0
      [] pc = "json"      -> 1
      [] pc = "upload"    -> 2
      [] pc = "start"     -> 3
      [] pc = "poll"      -> 4
      [] pc = "history"   -> 5
      [] pc = "llm"       -> 6
      [] pc = "voices"    -> 7
      [] pc = "speech"    -> 8
      [] pc = "download"  -> 9
      [] pc = "return"    -> 10
      [] OTHER            -> 11

\* A step of a running handler takes it to a later position; only the poll
\* loop stays where it is.
StagesForward ==
    (req.pc # "idle" /\ req'.pc # "idle") =>
        \/ Rank(req'.pc) > Rank(req.pc)
        \/ req.pc = "poll" /\ req'.pc = "poll"

\* No synthesis call before the transcription has completed; no generation
\* in the session pipeline before the user turn is in the history.
SynthesisAfterTranscription ==
    /\ (SavedAudio /\ req.calls.voices > 0) => req.job_text # NoText
    /\ (req.ep = "gemini_voice" /\ req.calls.llm > 0) =>
          Len(History(req.session_id)) > Len(History0(req.session_id))

\* The temp file of a request answered with a success is gone.
CleanupBeforeResponse ==
    (req.pc = "responded" /\ SavedAudio /\ Is2xx(req.resp)) =>
        req.temp_filename \notin DOMAIN files

\* In the pipelines eps the temp file of a request that has not failed is
\* removed only after the synthesis has written its output.
CleanupAfterSynthesis(eps) ==
    (/\ req.ep \in eps
     /\ SavedAudio
     /\ req.temp_filename \notin DOMAIN files
     /\ ~(req.pc = "responded" /\ ~Is2xx(req.resp))) =>
        req.calls.write > 0

\* C18 as claimed: stages only forward and none twice (the history is
\* updated in the history stage only), synthesis never before the
\* transcription has completed, and in every pipeline that saves a temp
\* file the cleanup comes after synthesis and before the response.
C18_StagesInOrder ==
    /\ [](/\ SynthesisAfterTranscription
          /\ CleanupBeforeResponse
          /\ CleanupAfterSynthesis(UsesHelpers \cup {"echo_bot"}))
    /\ [][/\ StagesForward
          /\ chat_store' # chat_store => req.pc = "history"]_vars

\* C18 amended: stages only forward and none twice, except that the
\* session pipeline updates the history twice: the user turn before the
\* generation and the assistant turn (reply or canned text) with it;
\* synthesis never before the transcription has completed; the temp file
\* is removed before the success response; the removal comes after
\* synthesis in /echobot/voice/, /llm/query and /gemini/voice/, and in
\* /tts/echo/ it comes after the poll loop and before synthesis.
C18_StagesInOrderOfCode ==
    /\ [](/\ SynthesisAfterTranscription
          /\ CleanupBeforeResponse
          /\ CleanupAfterSynthesis(UsesHelpers)
          /\ (req.ep = "echo_bot" /\ req.pc \in {"voices", "speech", "download"}) =>
                /\ req.temp_filename \notin DOMAIN files
                /\ req.calls.write = 0)
    /\ [][/\ StagesForward
          /\ chat_store' # chat_store =>
                /\ req.ep = "gemini_voice"
                /\ req.pc \in {"history", "llm"}]_vars

C18_Witness ==
    /\ req.ep = "echo_bot"
    /\ req.pc = "download"
    /\ req.job_text = OVER
    /\ req.temp_filename \notin DOMAIN files
    /\ req.calls.write = 0

NonPollCalls == {"upload", "start", "llm", "voices", "speech", "download"}

\* C19: within one request each provider call other than the status poll
\* (audio upload, job start, generation, voice catalog, speech generation,
\* audio download) is made at most once, and when one of them has failed
\* the request has ended with an error response.
C19_EachCallOnceFailureEnds ==
    /\ \A c \in NonPollCalls : req.calls[c] <= 1
    /\ req.failed_call \in NonPollCalls =>
          /\ req.pc = "responded"
          /\ ~Is2xx(req.resp)

\* C20: every step leaves each session's history a prefix of what it is
\* after the step (no turn removed, reordered or changed) and deletes no
\* session.
C20_HistoryOnlyGrows ==
    [][/\ DOMAIN chat_store \subseteq DOMAIN chat_store'
       /\ \A s \in DOMAIN chat_store :
             /\ Len(chat_store'[s]) >= Len(chat_store[s])
             /\ SubSeq(chat_store'[s], 1, Len(chat_store[s])) = chat_store[s]]_vars

C20_Witness ==
    /\ DOMAIN chat_store = Sessions
    /\ Len(chat_store["s1"]) = 2
    /\ Len(chat_store["s2"]) = 2
    /\ chat_store["s1"][2] = Turn("assistant", CANNED)

\* The blocks of one prompt line per turn of h, each "<Role>: <content>",
\* the lines separated by newlines.
RECURSIVE PromptLines(_)
PromptLines(h) ==
    IF h = <<>> THEN <<>>
    ELSE (IF h[1].role = "user"
          THEN << <<"User: ", 1>> >>
          ELSE << <<"Assistant: ", 1>> >>)
         \o h[1].content
         \o (IF Len(h) > 1 THEN << <<"\n", 1>> >> ELSE <<>>)
         \o PromptLines(Tail(h))

\* C21: the prompt /gemini/voice gives to the generation provider is the
\* fixed system instruction followed by one line "<Role>: <content>" per
\* turn of the request's session, all the turns the session had when the
\* request came in, in their order, then the line of the request's own
\* transcript, and no turn of any other session; the code closes it with
\* the cue "Assistant:" on a line of its own.
C21_PromptIsRenderedHistory ==
    (req.ep = "gemini_voice" /\ req.calls.llm > 0) =>
        req.prompt =
            << <<SYSTEM_CHUNK, 1>> >>
            \o PromptLines(History0(req.session_id)
                           \o << Turn("user", req.job_text) >>)
            \o << <<"\nAssistant:", 1>> >>

C21_Witness ==
    /\ req.ep = "gemini_voice"
    /\ req.calls.llm = 1
    /\ Len(History0(req.session_id)) = 2
    /\ History0(req.session_id)[1] = Turn("user", EMPTY)
    /\ req.job_text = OVER

\* C22: only /gemini/voice changes the history store, and only the entry
\* of its own session: every step that changes chat_store is a step of a
\* /gemini/voice request and leaves the history of every other session as
\* it was; every other request (/tts/echo/, /echobot/voice/, /voice/text,
\* /gemini, /llm/query, /play-audio) is answered with the store unchanged.
C22_OnlyOwnSessionTouched ==
    /\ [][chat_store' # chat_store =>
            /\ req.ep = "gemini_voice"
            /\ \A s \in Sessions \ {req.session_id} :
                  /\ s \in DOMAIN chat_store' <=> s \in DOMAIN chat_store
                  /\ s \in DOMAIN chat_store => chat_store'[s] = chat_store[s]]_vars
    /\ []((req.pc = "responded" /\ req.ep # "gemini_voice") =>
             chat_store = req.store0)

C22_Witness ==
    /\ Responded("gemini_voice")
    /\ req.session_id = "s1"
    /\ Len(History("s1")) = 2
    /\ Len(History0("s1")) = 0
    /\ Len(History("s2")) = 2

\* C23: a session for which no /gemini/voice request is between its user
\* append and its assistant append has a history of even length that
\* alternates user, assistant, starting with a user turn.
C23_AlternatesWhenQuiet ==
    \A s \in Sessions :
        ~(\E f \in {req, parked} :
              f.ep = "gemini_voice" /\ f.session_id = s /\ f.pc = "llm") =>
            /\ Len(History(s)) % 2 = 0
            /\ \A i \in 1..Len(History(s)) :
                  History(s)[i].role = IF i % 2 = 1 THEN "user" ELSE "assistant"

C23_Witness ==
    /\ req.pc = "idle"
    /\ Len(History("s2")) = 4
    /\ History("s2")[2] = Turn("assistant", CANNED)
    /\ History("s2")[4] = Turn("assistant", TStrip(PADOVER))

\* The response is the timeout error of poll_transcription or of /tts/echo/.
TimeoutResp(r) ==
    \/ r.details = "Transcription timed out"
    \/ r.status = 504 /\ r.error = "Transcription timed out."

\* C24: a request is answered with the timeout error only when no status
\* request of its poll loop was answered with a terminal status: a job
\* seen completed, whatever its text, or seen failed is never reported as
\* timed out.
C24_TimeoutOnlyWithoutTerminalStatus ==
    (req.pc = "responded" /\ TimeoutResp(req.resp)) =>
        /\ req.job_text = NoText
        /\ req.job_error = "None"

\* C25: murf_output.mp3 holds nothing but the audio of a synthesis whose
\* download succeeded, and a request answered with an error has left it
\* as it was when the request started.
C25_ArtifactOnlyFromSuccessfulSynthesis ==
    /\ Artifact # ErrorBody
    /\ Artifact # NoBody => Artifact[1] = "mp3"
    /\ (req.pc = "responded" /\ ~Is2xx(req.resp)) => Artifact = req.art0
====
